---- MODULE Spec2Model ----
(***************************************************************************)
(* tarssh: the event loop of main.rs (ticker / accept / signal branches of *)
(* select!), the write driver closure applied to the active bucket of the  *)
(* slot ring, the compact PeerAddr encoding and Vec::retain_unordered.     *)
(***************************************************************************)
EXTENDS Integers, Sequences, FiniteSets, TLC

(* ---------------- bounds of the model ---------------- *)
MaxDelay == 2          \* delay (ring size D) ranges over 1..MaxDelay
MaxTimeout == 2        \* timeout ranges over 0..MaxTimeout
MaxClients == 2        \* max_clients ranges over 1..MaxClients
MaxTotal == 2          \* admissions performed in one run (total_clients)
MaxBytes == 2          \* bytes written in one run (bytes), event loop runs
MaxBannerBytes == 200  \* bytes written in one run (bytes), banner runs
MaxVecLen == 5         \* length of the vector given to retain_unordered

VARIABLES
    delay,          \* opt.delay, seconds (NonZeroU16); max_tick = delay
    timeout,        \* opt.timeout, seconds (u16)
    max_clients,    \* opt.max_clients (NonZeroU32)
    pc,             \* position of main: "select", "sleeping", "done"
    ticker,         \* next item of stream::iter(0..max_tick).cycle()
    last_tick,
    num_clients,
    total_clients,
    bytes,
    slots,          \* [0..max_tick-1 -> Seq(Connection)]
    pending,        \* TRUE iff a connection attempt waits in the listen backlog
    event,          \* the event handled last, with what it logged
    hist,           \* per live socket: what the peer has observed so far
    ledger,         \* admissions performed; bytes_sent of the connections dropped
    addr,           \* PeerAddr round trip: the SocketAddr given
    peer,           \*   its PeerAddr
    back,           \*   SocketAddr::from(peer)
    ppc,            \*   position of the round trip
    vec,            \* retain_unordered: self
    idx,            \*   i
    rpc,            \*   position of retain_unordered
    orig,           \*   the vector as given
    calls           \*   element -> the results f returned for it

loopVars == <<delay, timeout, max_clients, pc, ticker, last_tick, num_clients,
              total_clients, bytes, slots, pending, event, hist, ledger>>
peerVars == <<addr, peer, back, ppc>>
retainVars == <<vec, idx, rpc, orig, calls>>
vars == <<loopVars, peerVars, retainVars>>

(* ---------------- helpers ---------------- *)
Min(a, b) == IF a < b THEN a ELSE b

RECURSIVE SumSeq(_)
SumSeq(s) == IF s = <<>> THEN 0 ELSE Head(s) + SumSeq(Tail(s))

Range(s) == {s[i] : i \in DOMAIN s}

(* ---------------- BANNER and the fragment offered to a write ---------- *)
BANNER ==
    <<77, 121, 32, 110, 97, 109, 101, 32, 105, 115, 32, 89, 111, 110, 32, 89, 111, 110, 115, 111, 110, 44, 13, 10>> \o
    <<73, 32, 108, 105, 118, 101, 32, 105, 110, 32, 87, 105, 115, 99, 111, 110, 115, 105, 110, 46, 13, 10>> \o
    <<73, 32, 119, 111, 114, 107, 32, 105, 110, 32, 97, 32, 108, 117, 109, 98, 101, 114, 32, 121, 97, 114, 100, 32, 116, 104, 101, 114, 101, 46, 13, 10>> \o
    <<84, 104, 101, 32, 112, 101, 111, 112, 108, 101, 32, 73, 32, 109, 101, 101, 116, 32, 97, 115, 13, 10>> \o
    <<73, 32, 119, 97, 108, 107, 32, 100, 111, 119, 110, 32, 116, 104, 101, 32, 115, 116, 114, 101, 101, 116, 44, 13, 10>> \o
    <<84, 104, 101, 121, 32, 115, 97, 121, 32, 34, 72, 101, 108, 108, 111, 33, 34, 13, 10>> \o
    <<73, 32, 115, 97, 121, 32, 34, 72, 101, 108, 108, 111, 33, 34, 13, 10>> \o
    <<84, 104, 101, 121, 32, 115, 97, 121, 32, 34, 87, 104, 97, 116, 39, 115, 32, 121, 111, 117, 114, 32, 110, 97, 109, 101, 46, 34, 13, 10>> \o
    <<73, 32, 115, 97, 121, 58, 32>>

NL == 10

\* let pos = &BANNER[connection.bytes as usize % BANNER.len()..];
Pos(nbytes) == SubSeq(BANNER, (nbytes % Len(BANNER)) + 1, Len(BANNER))

\* pos.iter().position(|b| *b == b'\n').unwrap_or(pos.len() - 1), 0-based
PositionMut(p) == Len(p) - 1
Position(p) ==
    IF \E k \in 1..Len(p) : p[k] = NL
    THEN (CHOOSE k \in 1..Len(p) : p[k] = NL /\ \A j \in 1..(k - 1) : p[j] # NL) - 1
    ELSE Len(p) - 1

\* let slice = &pos[..=...];
Slice(nbytes) == LET p == Pos(nbytes) IN SubSeq(p, 1, Position(p) + 1)

(* ---------------- the write driver closure ---------------- *)
\* Connection { sock, peer, start, bytes, failed }: sock is the identity of
\* the socket; peer and start are written once and only read by the log.
NewConnectionMut(sock) == [sock |-> sock, bytes |-> 0, failed |-> 1]
NewConnection(sock) == [sock |-> sock, bytes |-> 0, failed |-> 0]

\* what try_write can return for this connection: Ok(n) with 1 <= n <= len
\* of the slice (n at most room), or an error of one of three kinds
Outcomes(c, room) ==
    {[sock |-> c.sock, kind |-> "ok", n |-> n] :
        n \in 1..Min(Len(Slice(c.bytes)), room)}
    \cup {[sock |-> c.sock, kind |-> k, n |-> 0] :
        k \in {"wouldblock", "interrupted", "other"}}

\* one outcome for each connection of the bucket, in the order of the pass
RECURSIVE OutcomeSeqs(_, _)
OutcomeSeqs(bucket, room) ==
    IF bucket = <<>> THEN {<<>>}
    ELSE UNION {{<<o>> \o rest : rest \in OutcomeSeqs(Tail(bucket), room - o.n)} :
                    o \in Outcomes(Head(bucket), room)}

\* connection.bytes += n as u64
AdvanceMut(c, o) == c.bytes + Len(Slice(c.bytes))
Advance(c, o) == c.bytes + o.n

\* failed: u16; connection.failed += 1 (wrapping, as a release build does)
U16 == 65536
IncFailed(failed) == (failed + 1) % U16

\* delay * (connection.failed as u32) < timeout
WithinBudgetMut(failed) == delay * failed <= timeout
WithinBudget(failed) == delay * failed < timeout

\* one call of the closure: the connection as mutated, the value returned to
\* retain_mut (keep), the change of num_clients and bytes, the logged cause
WriteResultMut(c, o) ==
    IF o.kind = "ok" THEN
        [keep |-> TRUE, conn |-> [c EXCEPT !.bytes = Advance(c, o), !.failed = 0],
         n |-> o.n, dec |-> 0, cause |-> "none"]
    ELSE IF o.kind = "interrupted" THEN
        [keep |-> FALSE, conn |-> c, n |-> 0, dec |-> 0, cause |-> "none"]
    ELSE IF o.kind = "wouldblock" THEN
        LET f == IncFailed(c.failed) IN
        IF WithinBudget(f)
        THEN [keep |-> TRUE, conn |-> [c EXCEPT !.failed = f],
              n |-> 0, dec |-> 1, cause |-> "none"]
        ELSE [keep |-> FALSE, conn |-> [c EXCEPT !.failed = f],
              n |-> 0, dec |-> 1, cause |-> "Timed Out"]
    ELSE
        [keep |-> FALSE, conn |-> c, n |-> 0, dec |-> 1, cause |-> "other"]
WriteResult(c, o) ==
    IF o.kind = "ok" THEN
        [keep |-> TRUE, conn |-> [c EXCEPT !.bytes = Advance(c, o), !.failed = 0],
         n |-> o.n, dec |-> 0, cause |-> "none"]
    ELSE IF o.kind = "interrupted" THEN
        [keep |-> FALSE, conn |-> c, n |-> 0, dec |-> 0, cause |-> "none"]
    ELSE IF o.kind = "wouldblock" THEN
        LET f == IncFailed(c.failed) IN
        IF WithinBudget(f)
        THEN [keep |-> TRUE, conn |-> [c EXCEPT !.failed = f],
              n |-> 0, dec |-> 0, cause |-> "none"]
        ELSE [keep |-> FALSE, conn |-> [c EXCEPT !.failed = f],
              n |-> 0, dec |-> 1, cause |-> "Timed Out"]
    ELSE
        [keep |-> FALSE, conn |-> c, n |-> 0, dec |-> 1, cause |-> "other"]

\* retain_mut: the elements the closure returned true for, as mutated, in order
RetainMut(rs) ==
    LET kept == SelectSeq(rs, LAMBDA r : r.keep)
    IN  [i \in 1..Len(kept) |-> kept[i].conn]

\* the "disconnect" lines of one pass, each with the clients count it printed
RECURSIVE DisconnectLog(_, _)
DisconnectLog(rs, clients) ==
    IF rs = <<>> THEN <<>>
    ELSE LET r == Head(rs) IN
         IF r.dec = 1
         THEN <<[sock |-> r.conn.sock, cause |-> r.cause, clients |-> clients - 1]>>
              \o DisconnectLog(Tail(rs), clients - 1)
         ELSE DisconnectLog(Tail(rs), clients)

(* ---------------- the event loop ---------------- *)
NoEvent == [kind |-> "init", tick |-> 0, sig |-> "", err |-> "", wait |-> 0,
            outcomes |-> <<>>, log |-> <<>>]

\* stream::iter(0..max_tick).cycle()
NextTickMut(t) == (t + 2) % delay
NextTick(t) == (t + 1) % delay

\* the precondition of the accept branch: if num_clients < max_clients
AcceptGuardMut == num_clients <= max_clients
AcceptGuard == num_clients < max_clients

\* slots[last_tick].push(connection)
InsertSlotMut == ticker
InsertSlot == last_tick

\* match signal { "INFO" | "HUP" => "info", _ => "shutdown" }
SignalActionMut(sig) == IF sig = "INFO" THEN "info" ELSE "shutdown"
SignalAction(sig) == IF sig \in {"INFO", "HUP"} THEN "info" ELSE "shutdown"

Signals == {"INFO", "HUP", "TERM", "INT"}

Held == SumSeq([t \in 1..delay |-> Len(slots[t - 1])])

InitIdlePeer == addr = <<>> /\ peer = <<>> /\ back = <<>> /\ ppc = "idle"
InitIdleRetain == vec = <<>> /\ idx = 0 /\ rpc = "idle" /\ orig = <<>> /\ calls = <<>>

InitLoop(delays, timeouts, maxes) ==
    /\ delay \in delays
    /\ timeout \in timeouts
    /\ max_clients \in maxes
    /\ pc = "select"
    /\ ticker = 0
    /\ last_tick = 0
    /\ num_clients = 0
    /\ total_clients = 0
    /\ bytes = 0
    /\ slots = [t \in 0..(delay - 1) |-> <<>>]
    /\ pending = FALSE
    /\ event = NoEvent
    /\ hist = <<>>
    /\ ledger = [admitted |-> 0, dropped |-> 0]

Init ==
    /\ InitLoop(1..MaxDelay, 0..MaxTimeout, 1..MaxClients)
    /\ InitIdlePeer
    /\ InitIdleRetain

\* a remote peer connects: the attempt waits in the listen backlog
Arrive ==
    /\ pc # "done"
    /\ pending' = TRUE
    /\ event' = [NoEvent EXCEPT !.kind = "arrive"]
    /\ UNCHANGED <<delay, timeout, max_clients, pc, ticker, last_tick, num_clients,
                   total_clients, bytes, slots, hist, ledger>>

\* Some(signal) = signals.next() => ...
Signal ==
    /\ pc = "select"
    /\ \E sig \in Signals :
        /\ event' = [NoEvent EXCEPT !.kind = "signal", !.sig = sig]
        /\ pc' = IF SignalAction(sig) # "info" THEN "done" ELSE "select"
    /\ UNCHANGED <<delay, timeout, max_clients, ticker, last_tick, num_clients,
                   total_clients, bytes, slots, pending, hist, ledger>>

\* Some((tick, _)) = ticker.next() => ...
Tick(cap) ==
    /\ pc = "select"
    /\ LET tick == ticker
           bucket == slots[tick]
       IN \E os \in OutcomeSeqs(bucket, cap - bytes) :
            /\ LET rs == [i \in 1..Len(bucket) |-> WriteResult(bucket[i], os[i])]
                   gone == {rs[i].conn.sock : i \in {j \in 1..Len(bucket) : ~rs[j].keep}}
               IN /\ ticker' = NextTick(ticker)
                  /\ last_tick' = tick
                  /\ slots' = [slots EXCEPT ![tick] = RetainMut(rs)]
                  /\ bytes' = bytes + SumSeq([i \in 1..Len(bucket) |-> rs[i].n])
                  /\ num_clients' = num_clients - SumSeq([i \in 1..Len(bucket) |-> rs[i].dec])
                  /\ event' = [NoEvent EXCEPT !.kind = "tick", !.tick = tick,
                               !.outcomes = os, !.log = DisconnectLog(rs, num_clients)]
                  /\ hist' = [s \in (DOMAIN hist) \ gone |->
                        IF \E i \in 1..Len(bucket) : bucket[i].sock = s
                        THEN LET i == CHOOSE i \in 1..Len(bucket) : bucket[i].sock = s
                             IN [hist[s] EXCEPT
                                   !.sent = @ \o SubSeq(Slice(bucket[i].bytes), 1, os[i].n),
                                   !.wait = 0,
                                   !.tried = TRUE]
                        ELSE [hist[s] EXCEPT !.wait = @ + 1]]
                  /\ ledger' = [ledger EXCEPT !.dropped = @ + SumSeq(
                        [i \in 1..Len(bucket) |->
                            IF rs[i].keep THEN 0 ELSE rs[i].conn.bytes])]
    /\ UNCHANGED <<delay, timeout, max_clients, pc, total_clients, pending>>

\* Some(client) = listeners.next(), if num_clients < max_clients => Ok(sock)
AcceptOk ==
    /\ pc = "select"
    /\ AcceptGuard
    /\ pending
    /\ total_clients < MaxTotal
    /\ pending' \in BOOLEAN
    /\ \E peerOk \in BOOLEAN :
        IF peerOk
        THEN LET sock == total_clients + 1 IN
             /\ num_clients' = num_clients + 1
             /\ total_clients' = total_clients + 1
             /\ slots' = [slots EXCEPT ![InsertSlot] = Append(@, NewConnection(sock))]
             /\ event' = [NoEvent EXCEPT !.kind = "connect"]
             /\ hist' = [s \in (DOMAIN hist) \cup {sock} |->
                            IF s = sock
                            THEN [sent |-> <<>>, wait |-> 0, tried |-> FALSE,
                                  home |-> last_tick]
                            ELSE hist[s]]
             /\ ledger' = [ledger EXCEPT !.admitted = @ + 1]
        ELSE /\ event' = [NoEvent EXCEPT !.kind = "reject"]
             /\ UNCHANGED <<num_clients, total_clients, slots, hist, ledger>>
    /\ UNCHANGED <<delay, timeout, max_clients, pc, ticker, last_tick, bytes>>

\* the kinds of error accept() is given here; "Other" stands for every kind
\* the match does not name (too many open files, ...)
AcceptErrors == {"ConnectionRefused", "ConnectionAborted", "ConnectionReset", "Other"}

\* ConnectionRefused | ConnectionAborted | ConnectionReset => ()
IgnoredErrorMut(kind) == kind \in {"ConnectionRefused", "ConnectionAborted"}
IgnoredError(kind) ==
    kind \in {"ConnectionRefused", "ConnectionAborted", "ConnectionReset"}

\* let wait = Duration::from_millis(100)
BackoffMs == 100

\* ... => Err(err): refused/aborted/reset are ignored, others sleep 100ms
AcceptErr ==
    /\ pc = "select"
    /\ AcceptGuard
    /\ \E kind \in AcceptErrors :
        IF IgnoredError(kind)
        THEN /\ event' = [NoEvent EXCEPT !.kind = "accept_gone", !.err = kind]
             /\ pc' = "select"
        ELSE /\ event' = [NoEvent EXCEPT !.kind = "accept_err", !.err = kind,
                                         !.wait = BackoffMs]
             /\ pc' = "sleeping"
    /\ UNCHANGED <<delay, timeout, max_clients, ticker, last_tick, num_clients,
                   total_clients, bytes, slots, pending, hist, ledger>>

\* sleep(wait).await completes
Wake ==
    /\ pc = "sleeping"
    /\ pc' = "select"
    /\ event' = [NoEvent EXCEPT !.kind = "wake"]
    /\ UNCHANGED <<delay, timeout, max_clients, ticker, last_tick, num_clients,
                   total_clients, bytes, slots, pending, hist, ledger>>

Next ==
    \/ (Arrive /\ UNCHANGED <<peerVars, retainVars>>)
    \/ (Signal /\ UNCHANGED <<peerVars, retainVars>>)
    \/ (Tick(MaxBytes) /\ UNCHANGED <<peerVars, retainVars>>)
    \/ (AcceptOk /\ UNCHANGED <<peerVars, retainVars>>)
    \/ (AcceptErr /\ UNCHANGED <<peerVars, retainVars>>)
    \/ (Wake /\ UNCHANGED <<peerVars, retainVars>>)

Spec == Init /\ [][Next]_vars

(* ---------------- PeerAddr (peer_addr.rs) ---------------- *)
\* A SocketAddr is [fam |-> "V4", ip |-> four octets, port] or
\* [fam |-> "V6", ip |-> eight 16-bit segments, port]. The u128 of PeerAddr
\* is its sixteen big-endian bytes.

\* Ipv4Addr::to_ipv6_mapped: ::ffff:a.b.c.d
ToIpv6Mapped(o) == <<0, 0, 0, 0, 0, 65535, o[1] * 256 + o[2], o[3] * 256 + o[4]>>

\* u128::from(Ipv6Addr): the octets of the address, big-endian
U128FromIpv6(segs) ==
    [k \in 1..16 |-> IF k % 2 = 1 THEN segs[(k + 1) \div 2] \div 256
                                  ELSE segs[k \div 2] % 256]

\* Ipv6Addr::from(u128)
Ipv6FromU128(b) == [k \in 1..8 |-> b[2 * k - 1] * 256 + b[2 * k]]

\* Ipv6Addr::to_ipv4: Some for [0, 0, 0, 0, 0, 0 | 0xffff, ab, cd]
ToIpv4(segs) ==
    IF (\A k \in 1..5 : segs[k] = 0) /\ segs[6] \in {0, 65535}
    THEN <<segs[7] \div 256, segs[7] % 256, segs[8] \div 256, segs[8] % 256>>
    ELSE <<>>

\* impl From<&SocketAddr> for PeerAddr
PeerAddrFrom(a) ==
    [ip |-> IF a.fam = "V4" THEN U128FromIpv6(ToIpv6Mapped(a.ip))
                            ELSE U128FromIpv6(a.ip),
     port |-> a.port]

\* impl From<&PeerAddr> for SocketAddr
SocketAddrFrom(pa) ==
    LET ip == Ipv6FromU128(pa.ip)
        v4 == ToIpv4(ip)
    IN  IF v4 # <<>> THEN [fam |-> "V4", ip |-> v4, port |-> pa.port]
                     ELSE [fam |-> "V6", ip |-> ip, port |-> pa.port]

\* the socket addresses tried
Octets == {0, 1, 255}
Ports == {22, 65535}
SocketAddrs ==
    {[fam |-> "V4", ip |-> o, port |-> p] : o \in [1..4 -> Octets], p \in Ports}
    \cup {[fam |-> "V6", ip |-> hi \o <<m>> \o lo, port |-> p] :
            hi \in [1..5 -> {0, 1}], m \in {0, 1, 65535},
            lo \in [1..2 -> {0, 1, 258, 65535}], p \in Ports}

InitPeer ==
    /\ InitLoop({1}, {0}, {1})
    /\ InitIdleRetain
    /\ addr \in SocketAddrs
    /\ peer = <<>>
    /\ back = <<>>
    /\ ppc = "given"

\* peer: peer.into()
Encode ==
    /\ ppc = "given"
    /\ peer' = PeerAddrFrom(addr)
    /\ ppc' = "encoded"
    /\ UNCHANGED <<addr, back>>

\* SocketAddr::from(self), as Display does for the log
Decode ==
    /\ ppc = "encoded"
    /\ back' = SocketAddrFrom(peer)
    /\ ppc' = "decoded"
    /\ UNCHANGED <<addr, peer>>

NextPeer ==
    \/ (Encode /\ UNCHANGED <<loopVars, retainVars>>)
    \/ (Decode /\ UNCHANGED <<loopVars, retainVars>>)

SpecPeer == InitPeer /\ [][NextPeer]_vars

(* ---------------- retain_unordered (retain_unordered.rs) ---------------- *)
\* Vec::swap_remove(i), i counted from 0
SwapRemove(v, i) ==
    [k \in 1..(Len(v) - 1) |-> IF k = i + 1 THEN v[Len(v)] ELSE v[k]]

\* Vec::remove(i), i counted from 0
Remove(v, i) == SubSeq(v, 1, i) \o SubSeq(v, i + 2, Len(v))

\* the body of the while loop, f having returned keep for self[i]
LoopBodyMut(v, i, keep) ==
    IF keep THEN [vec |-> v, idx |-> i + 1]
    ELSE IF Len(v) > 1 THEN [vec |-> SwapRemove(v, i), idx |-> i + 1]
    ELSE [vec |-> Remove(v, i), idx |-> i + 1]
LoopBody(v, i, keep) ==
    IF keep THEN [vec |-> v, idx |-> i + 1]
    ELSE IF Len(v) > 1 THEN [vec |-> SwapRemove(v, i), idx |-> i]
    ELSE [vec |-> Remove(v, i), idx |-> i]

\* the vectors tried: elements are told apart by their identity
InitRetain ==
    /\ InitLoop({1}, {0}, {1})
    /\ InitIdlePeer
    /\ \E n \in 0..MaxVecLen : orig = [k \in 1..n |-> k]
    /\ vec = orig
    /\ idx = 0
    /\ rpc = "while"
    /\ calls = [k \in DOMAIN orig |-> <<>>]

\* while i < self.len() { if f(&mut self[i]) ... }
RetainStep ==
    /\ rpc = "while"
    /\ idx < Len(vec)
    /\ \E keep \in BOOLEAN :
        LET r == LoopBody(vec, idx, keep) IN
        /\ calls' = [calls EXCEPT ![vec[idx + 1]] = Append(@, keep)]
        /\ vec' = r.vec
        /\ idx' = r.idx
    /\ UNCHANGED <<rpc, orig>>

RetainDone ==
    /\ rpc = "while"
    /\ ~(idx < Len(vec))
    /\ rpc' = "done"
    /\ UNCHANGED <<vec, idx, orig, calls>>

NextRetain ==
    \/ (RetainStep /\ UNCHANGED <<loopVars, peerVars>>)
    \/ (RetainDone /\ UNCHANGED <<loopVars, peerVars>>)

SpecRetain == InitRetain /\ [][NextRetain]_vars

(* ---------------- banner runs: one admission left, writes up to
   MaxBannerBytes so that the banner wraps around ---------------- *)
\* the state after MaxTotal - 1 connections were admitted and each dropped
\* on an I/O error of its first write (no byte written); ceiling 1, delay 1
InitBanner ==
    /\ delay = 1
    /\ timeout = 2
    /\ max_clients = 1
    /\ pc = "select"
    /\ ticker = 0
    /\ last_tick = 0
    /\ num_clients = 0
    /\ total_clients = MaxTotal - 1
    /\ bytes = 0
    /\ slots = [t \in 0..0 |-> <<>>]
    /\ pending = FALSE
    /\ event = NoEvent
    /\ hist = <<>>
    /\ ledger = [admitted |-> MaxTotal - 1, dropped |-> 0]
    /\ InitIdlePeer
    /\ InitIdleRetain

NextBanner ==
    \/ (Arrive /\ UNCHANGED <<peerVars, retainVars>>)
    \/ (AcceptOk /\ UNCHANGED <<peerVars, retainVars>>)
    \/ (Tick(MaxBannerBytes) /\ UNCHANGED <<peerVars, retainVars>>)

SpecBanner == InitBanner /\ [][NextBanner]_vars

(* ---------------- budget runs: timeouts at the ends of u16 --------------- *)
\* the timeouts tried, and for each the failed counts a held connection can
\* have reached by consecutive would-blocks (0, 1 and the largest retained)
BudgetTimeouts == {0, 1, U16 - 2, U16 - 1}
BudgetFailed(d, t) ==
    {f \in {0, 1, (t - 1) \div d} : f = 0 \/ (f > 0 /\ d * f < t)}

\* the state with the last connection admitted to bucket 0 and, if failed > 0,
\* written to failed times without success; the connections before it have
\* taken the MaxBytes bytes of the run, so every write from here on fails
InitBudget ==
    /\ delay \in 1..MaxDelay
    /\ timeout \in BudgetTimeouts
    /\ max_clients = 1
    /\ pc = "select"
    /\ last_tick = 0
    /\ num_clients = 1
    /\ total_clients = MaxTotal
    /\ bytes = MaxBytes
    /\ pending = FALSE
    /\ ledger = [admitted |-> MaxTotal, dropped |-> MaxBytes]
    /\ \E f \in BudgetFailed(delay, timeout) :
        /\ slots = [t \in 0..(delay - 1) |->
                      IF t = 0 THEN <<[NewConnection(MaxTotal) EXCEPT !.failed = f]>>
                               ELSE <<>>]
        /\ ticker = IF f > 0 THEN NextTick(0) ELSE 0
        /\ hist = [s \in {MaxTotal} |->
                      [sent |-> <<>>, wait |-> 0, tried |-> f > 0, home |-> 0]]
        /\ event = IF f > 0
                   THEN [NoEvent EXCEPT !.kind = "tick",
                            !.outcomes = <<[sock |-> MaxTotal, kind |-> "wouldblock",
                                            n |-> 0]>>]
                   ELSE [NoEvent EXCEPT !.kind = "connect"]
    /\ InitIdlePeer
    /\ InitIdleRetain

NextBudget == Tick(MaxBytes) /\ UNCHANGED <<peerVars, retainVars>>

SpecBudget == InitBudget /\ [][NextBudget]_vars

(* ======================= claims ======================= *)
\* the connection of socket s in a bucket, if it is there
Has(bucket, s) == \E i \in 1..Len(bucket) : bucket[i].sock = s
Get(bucket, s) == bucket[CHOOSE i \in 1..Len(bucket) : bucket[i].sock = s]

AcceptKinds == {"connect", "reject", "accept_gone", "accept_err"}

\* C1: num_clients never exceeds max_clients; no accept event is handled
\* while num_clients >= max_clients; and whenever the loop is at select!
\* with num_clients < max_clients and an attempt pending, accepting it is
\* enabled (up to the bound on admissions).
C1_Ceiling ==
    /\ [](num_clients <= max_clients)
    /\ []((pc = "select" /\ pending /\ total_clients < MaxTotal
             /\ num_clients < max_clients) => ENABLED AcceptOk)
    /\ [][num_clients >= max_clients =>
            /\ event'.kind \notin AcceptKinds
            /\ total_clients' = total_clients
            /\ (pending => pending')]_vars

\* an eviction took num_clients from the ceiling to below it while an attempt
\* is pending
C1_Witness ==
    /\ event.kind = "tick"
    /\ event.log # <<>>
    /\ event.log[1].clients = max_clients - 1
    /\ pending
    /\ pc = "select"

\* C2: a connection admitted while last_tick = i gets a write attempt at
\* exactly the firings of bucket i: the first at most delay firings after
\* admission, each later one exactly delay firings after the one before; no
\* live connection ever waits delay firings without an attempt.
C2_Placement ==
    /\ [](\A s \in DOMAIN hist : hist[s].wait < delay)
    /\ [][event'.kind = "tick" =>
            LET t == event'.tick
                attempted == {event'.outcomes[i].sock : i \in DOMAIN event'.outcomes}
            IN  /\ Len(event'.outcomes) = Cardinality(attempted)
                /\ \A s \in DOMAIN hist :
                    /\ s \in attempted <=> hist[s].home = t
                    /\ s \in attempted =>
                        /\ hist[s].wait + 1 >= 0
                        /\ hist[s].wait + 1 <= delay
                        /\ hist[s].tried => hist[s].wait + 1 = delay]_vars

\* with delay >= 2, a connection has just had a successful write that was
\* not its first
C2_Witness ==
    /\ delay >= 2
    /\ event.kind = "tick"
    /\ \E i \in DOMAIN event.outcomes :
        LET o == event.outcomes[i] IN
        /\ o.kind = "ok"
        /\ Has(slots[event.tick], o.sock)
        /\ Get(slots[event.tick], o.sock).bytes > o.n

\* C3: after a successful write failed is 0 and the connection is retained;
\* a would-block adds exactly 1 to failed; then the connection is retained
\* iff delay * failed < timeout, and is otherwise evicted with the cause
\* "Timed Out".
C3_Backpressure ==
    [][event'.kind = "tick" =>
        LET t == event'.tick IN
        \A i \in DOMAIN event'.outcomes :
            LET o == event'.outcomes[i]
                c == slots[t][i]
                f == c.failed + 1
            IN  /\ o.sock = c.sock
                /\ o.kind = "ok" =>
                    /\ Has(slots'[t], c.sock)
                    /\ Get(slots'[t], c.sock).failed = 0
                /\ (o.kind = "wouldblock" /\ delay * f < timeout) =>
                    /\ Has(slots'[t], c.sock)
                    /\ Get(slots'[t], c.sock).failed = f
                    /\ \A k \in DOMAIN event'.log : event'.log[k].sock # c.sock
                /\ (o.kind = "wouldblock" /\ delay * f >= timeout) =>
                    /\ ~Has(slots'[t], c.sock)
                    /\ \E k \in DOMAIN event'.log :
                        /\ event'.log[k].sock = c.sock
                        /\ event'.log[k].cause = "Timed Out"]_vars

\* a connection was evicted as timed out after more than one would-block
C3_Witness ==
    /\ event.kind = "tick"
    /\ timeout > delay
    /\ \E k \in DOMAIN event.log : event.log[k].cause = "Timed Out"

\* C4: num_clients equals the number of Connection records held in all
\* buckets of the slot ring.
C4_CountMatchesRing == num_clients = Held

\* C5: at the ceiling with an attempt pending, the attempt is neither
\* accepted nor rejected; and once a held connection is evicted the accept
\* source is enabled again.
C5_ResumeAfterEviction ==
    [][(num_clients >= max_clients /\ pending) =>
        /\ pending'
        /\ total_clients' = total_clients
        /\ event'.kind \notin AcceptKinds
        /\ (Held' < Held => num_clients' < max_clients)]_vars

\* C6: the write driver removes a connection only on a would-block with
\* delay * failed >= timeout or on a genuine I/O error; an interrupted write
\* leaves the connection in its bucket.
C6_EvictOnlyOnTimeoutOrError ==
    [][event'.kind = "tick" =>
        LET t == event'.tick IN
        \A i \in DOMAIN event'.outcomes :
            LET o == event'.outcomes[i]
                c == slots[t][i]
            IN  /\ ~Has(slots'[t], c.sock) =>
                    \/ o.kind = "wouldblock" /\ delay * (c.failed + 1) >= timeout
                    \/ o.kind = "other"
                /\ o.kind = "interrupted" => Has(slots'[t], c.sock)]_vars

\* the n-th byte (n >= 1) of the endless repetition of the banner
Cyclic(n) == BANNER[((n - 1) % Len(BANNER)) + 1]

\* C7: the bytes delivered to a connection are a prefix of the endless
\* repetition of the banner, and bytes counts them.
C7_BannerPrefix ==
    \A t \in DOMAIN slots : \A i \in 1..Len(slots[t]) :
        LET c == slots[t][i]
            got == hist[c.sock].sent
        IN  /\ Len(got) = c.bytes
            /\ \A n \in 1..Len(got) : got[n] = Cyclic(n)

\* a connection has received the whole banner and the start of the next
\* round, the last write having stopped inside a line
C7_Witness ==
    \E t \in DOMAIN slots : \E i \in 1..Len(slots[t]) :
        /\ slots[t][i].bytes > Len(BANNER) + 1
        /\ event.kind = "tick"
        /\ \E k \in DOMAIN event.outcomes :
            /\ event.outcomes[k].sock = slots[t][i].sock
            /\ event.outcomes[k].kind = "ok"

\* C8: decoding the PeerAddr of a socket address gives back the same family,
\* the same IP and the same port.
C8_RoundTrip == ppc = "decoded" => back = addr

\* C9: retain_unordered calls the predicate at most once on an element, the
\* elements not yet visited are exactly those from position i on (so each
\* step leaves one fewer and the loop ends after one call per element), and
\* at the end every element was visited once and the vector holds exactly
\* the elements the predicate returned true for, each once.
C9_RetainUnordered ==
    LET unvisited == {e \in DOMAIN calls : calls[e] = <<>>}
        kept == {e \in DOMAIN calls : calls[e] = <<TRUE>>}
    IN  /\ \A e \in DOMAIN calls : Len(calls[e]) <= 1
        /\ idx <= Len(vec)
        /\ {vec[k] : k \in (idx + 1)..Len(vec)} = unvisited
        /\ Len(vec) - idx = Cardinality(unvisited)
        /\ rpc = "while" => (ENABLED RetainStep \/ ENABLED RetainDone)
        /\ rpc = "done" =>
            /\ unvisited = {}
            /\ Range(vec) = kept
            /\ Len(vec) = Cardinality(kept)

\* the first of three elements was swap-removed, the last one took its place
\* and was visited there
C9_Witness == rpc = "done" /\ orig = <<1, 2, 3>> /\ vec = <<3, 2>>

\* C10: handling a signal changes neither the slot ring nor the counters;
\* after INFO/HUP the loop is at select! again, after any other signal it
\* has ended, and once ended nothing changes any more.
C10_Signals ==
    /\ [](pc = "select" => ENABLED Tick(MaxBytes))
    /\ [][/\ event'.kind = "signal" =>
                /\ UNCHANGED <<slots, num_clients, total_clients, bytes,
                               ticker, last_tick>>
                /\ pc = "select"
                /\ pc' = IF event'.sig \in {"INFO", "HUP"} THEN "select" ELSE "done"
          /\ pc = "done" => UNCHANGED loopVars]_vars

\* the loop has ended on a signal with connections still held
C10_Witness ==
    /\ pc = "done"
    /\ event.kind = "signal"
    /\ event.sig \in {"TERM", "INT"}
    /\ Held > 0

\* the places <<t, i>> of the slot ring that hold the connection of socket s
Places(s) ==
    {p \in UNION {{<<t, i>> : i \in 1..Len(slots[t])} : t \in DOMAIN slots} :
        slots[p[1]][p[2]].sock = s}

\* C11: a write error other than would-block evicts the connection in that
\* pass whatever its failed counter is, and num_clients goes down by one for
\* each connection evicted; a connection of the bucket whose own write
\* succeeded stays, with its bytes advanced by what was written.
C11_ErrorEvicts ==
    [][event'.kind = "tick" =>
        LET t == event'.tick
            evicted == {i \in 1..Len(slots[t]) : ~Has(slots'[t], slots[t][i].sock)}
        IN  /\ \A i \in DOMAIN event'.outcomes :
                LET o == event'.outcomes[i]
                    c == slots[t][i]
                IN  /\ o.kind \in {"other", "interrupted"} => i \in evicted
                    /\ o.kind = "ok" =>
                        /\ i \notin evicted
                        /\ Get(slots'[t], c.sock).bytes = c.bytes + o.n
            /\ num_clients' = num_clients - Cardinality(evicted)]_vars

\* C12: every live connection is held at exactly one place of the slot ring,
\* in the bucket that was last_tick when it was admitted, and the ring holds
\* no other record.
C12_OneBucket ==
    /\ \A s \in DOMAIN hist :
        /\ Cardinality(Places(s)) = 1
        /\ Has(slots[hist[s].home], s)
    /\ \A t \in DOMAIN slots : \A i \in 1..Len(slots[t]) :
        slots[t][i].sock \in DOMAIN hist

\* two connections live in different buckets, one of them already written to
C12_Witness ==
    /\ delay >= 2
    /\ \E s1 \in DOMAIN hist, s2 \in DOMAIN hist :
        /\ hist[s1].home # hist[s2].home
        /\ hist[s1].tried
        /\ event.kind = "tick"

\* C13: a ticker firing processes the bucket the cycle 0, 1, .., D-1, 0, ..
\* has reached and no other: each connection of that bucket gets one write
\* attempt, in order, and the other buckets are left as they are.
C13_OneBucketPerTick ==
    /\ [](ticker \in 0..(delay - 1))
    /\ [](ticker = (last_tick + 1) % delay \/ (ticker = 0 /\ last_tick = 0))
    /\ [][event'.kind = "tick" =>
            LET t == event'.tick IN
            /\ t = ticker
            /\ last_tick' = t
            /\ ticker' = (t + 1) % delay
            /\ Len(event'.outcomes) = Len(slots[t])
            /\ \A i \in 1..Len(slots[t]) : event'.outcomes[i].sock = slots[t][i].sock
            /\ \A u \in DOMAIN slots : u # t => slots'[u] = slots[u]]_vars

\* a firing has written to a connection of its bucket while another bucket
\* holds a connection
C13_Witness ==
    /\ delay >= 2
    /\ event.kind = "tick"
    /\ event.outcomes # <<>>
    /\ \E u \in DOMAIN slots : u # event.tick /\ slots[u] # <<>>

\* C14: an accept with a resolved peer adds 1 to num_clients and to
\* total_clients and appends a Connection with bytes = 0 and failed = 0 to
\* slots[last_tick]; an accept whose peer address is unavailable admits
\* nothing; neither changes anything else of the loop.
C14_Admission ==
    [][/\ event'.kind = "connect" =>
            /\ num_clients' = num_clients + 1
            /\ total_clients' = total_clients + 1
            /\ slots' = [slots EXCEPT ![last_tick] =
                            Append(@, [sock |-> total_clients + 1, bytes |-> 0,
                                       failed |-> 0])]
            /\ UNCHANGED <<bytes, ticker, last_tick, pc, delay, timeout, max_clients>>
       /\ event'.kind = "reject" =>
            UNCHANGED <<num_clients, total_clients, slots, bytes, ticker, last_tick,
                        pc, delay, timeout, max_clients>>]_vars

\* a connection has been admitted into bucket 1 next to one admitted before
C14_Witness ==
    /\ event.kind = "connect"
    /\ delay >= 2
    /\ last_tick = 1
    /\ Len(slots[1]) = 2

\* C18: num_clients is never below the number of connections held, which is
\* never below 0, so no eviction subtracts from 0.
C18_NoUnderflow ==
    /\ Held >= 0
    /\ num_clients >= Held
    /\ event.kind = "tick" => \A k \in DOMAIN event.log : event.log[k].clients >= 0

\* an eviction has taken num_clients to 0
C18_Witness ==
    /\ event.kind = "tick"
    /\ event.log # <<>>
    /\ num_clients = 0

\* C15: an accept error changes neither the counters nor any bucket;
\* refused/aborted/reset are ignored and the loop is at select! again at
\* once; any other error starts a wait of 100 ms, during which the loop does
\* nothing, and after it the loop is at select! again.
C15_AcceptError ==
    /\ [](pc = "sleeping" => ENABLED Wake)
    /\ [][/\ event'.kind \in {"accept_gone", "accept_err"} =>
                /\ UNCHANGED <<num_clients, total_clients, bytes, slots, ticker,
                               last_tick>>
                /\ IF event'.err \in {"ConnectionRefused", "ConnectionAborted",
                                      "ConnectionReset"}
                   THEN pc' = "select" /\ event'.wait = 0
                   ELSE pc' = "sleeping" /\ event'.wait = 100
          /\ pc = "sleeping" =>
                /\ UNCHANGED <<num_clients, total_clients, bytes, slots, ticker,
                               last_tick>>
                /\ \/ pc' = "select" /\ event'.kind = "wake"
                   \/ pc' = "sleeping" /\ event'.kind = "arrive"]_vars

\* the wait after an accept error is over, with a connection held
C15_Witness ==
    /\ event.kind = "wake"
    /\ pc = "select"
    /\ Held > 0

\* C16: whenever the loop has not ended, a ticker firing and a signal can be
\* dispatched: the loop is never suspended inside a handler.
C16_SuspendsOnlyAtSelect ==
    pc # "done" => (ENABLED Tick(MaxBytes) /\ ENABLED Signal)

\* C17: the fragment offered for a connection is not empty, is the banner
\* from offset bytes mod its length, has no '\n' before its last byte, and
\* ends with the first '\n' or, if none remains, at the banner's last byte.
C17_Fragment ==
    \A t \in DOMAIN slots : \A i \in 1..Len(slots[t]) :
        LET off == slots[t][i].bytes % Len(BANNER)
            f == Slice(slots[t][i].bytes)
        IN  /\ Len(f) >= 1
            /\ off + Len(f) <= Len(BANNER)
            /\ \A k \in 1..Len(f) : f[k] = BANNER[off + k]
            /\ \A k \in 1..(Len(f) - 1) : f[k] # 10
            /\ f[Len(f)] = 10 \/ off + Len(f) = Len(BANNER)

\* a connection stands inside the last line of the banner, after which no
\* '\n' remains
C17_Witness ==
    \E t \in DOMAIN slots : \E i \in 1..Len(slots[t]) :
        /\ slots[t][i].bytes = Len(BANNER) - 3
        /\ event.kind = "tick"

\* C19: a connection that is held has failed <= 65534 and, if failed > 0,
\* delay * failed < timeout; a would-block never finds failed at 65535, and
\* the one that takes failed to max(1, ceil(timeout / delay)) evicts.
C19_NoOverflow ==
    /\ [](\A t \in DOMAIN slots : \A i \in 1..Len(slots[t]) :
            /\ slots[t][i].failed <= 65534
            /\ slots[t][i].failed > 0 => delay * slots[t][i].failed < timeout)
    /\ [][event'.kind = "tick" =>
            LET t == event'.tick
                need == IF timeout = 0 THEN 1
                        ELSE (timeout + delay - 1) \div delay
            IN  /\ need <= 65535
                /\ \A i \in DOMAIN event'.outcomes :
                    event'.outcomes[i].kind = "wouldblock" =>
                        /\ slots[t][i].failed < 65535
                        /\ slots[t][i].failed + 1 <= need
                        /\ slots[t][i].failed + 1 = need =>
                                ~Has(slots'[t], slots[t][i].sock)]_vars

\* with delay 1 and timeout 65535 the 65535th consecutive would-block has
\* evicted the connection
C19_Witness ==
    /\ delay = 1
    /\ timeout = 65535
    /\ event.kind = "tick"
    /\ \E k \in DOMAIN event.log : event.log[k].cause = "Timed Out"

\* the bytes_sent of the connections held, summed over the ring
LiveBytes ==
    SumSeq([t \in 1..delay |->
              SumSeq([i \in 1..Len(slots[t - 1]) |-> slots[t - 1][i].bytes])])

\* C20: the byte counter is the sum of bytes_sent over every connection ever
\* admitted, held or dropped; total_clients is the number of admissions and
\* is at least num_clients; neither counter ever decreases.
C20_Counters ==
    /\ [](/\ bytes = LiveBytes + ledger.dropped
          /\ total_clients = ledger.admitted
          /\ total_clients >= num_clients)
    /\ [][bytes' >= bytes /\ total_clients' >= total_clients]_vars

\* a connection that had been sent a byte was dropped, and another that has
\* been sent a byte is held
C20_Witness ==
    /\ ledger.dropped > 0
    /\ LiveBytes > 0
    /\ ledger.admitted > num_clients

====
